---- MODULE Spec2Model ----
(***************************************************************************)
(* Model of the Markdown search engine's index synchronizer and search:    *)
(* app/indexer.py (index_file, full_reindex, remove_file_from_index),      *)
(* app/watcher.py (MdEventHandler), app/search_service.py                  *)
(* (search_documents) and the /search route of app/api.py, over the two    *)
(* SQLite tables of app/db.py.                                             *)
(*                                                                         *)
(* SQLite behaviour the code relies on is modelled as the engine does it:  *)
(*  - docs.id is INTEGER PRIMARY KEY AUTOINCREMENT: every INSERT attempt,  *)
(*    also one that ON CONFLICT turns into an UPDATE, consumes the next    *)
(*    value of sqlite_sequence; ids are never reused;                      *)
(*  - docs_fts is an fts5 table: a new row gets rowid max(rowid)+1;        *)
(*  - cursor.lastrowid is sqlite3_last_insert_rowid() of the connection:   *)
(*    the rowid of the last row INSERTed on that connection, in any table, *)
(*    left untouched by an upsert that performed an UPDATE, 0 on a         *)
(*    connection that has not inserted yet.                                *)
(*                                                                         *)
(* A document body is the set of its index terms; no file of the model    *)
(* carries a frontmatter title, so its title is the file stem.  The mtime  *)
(* column is written by the same UPSERT as title and summary and is left   *)
(* out.  The files are inputs of the steps that read them: an event        *)
(* handler finds whatever file is at the path when it runs.                *)
(*                                                                         *)
(* The text functions (_segment_chinese_text, _segment_chinese_query, the  *)
(* summary of extract_text_from_md and the highlighter of get_document)    *)
(* work on strings, which are sequences of characters; each has a          *)
(* specification of its own whose initial states hold the argument.        *)
(***************************************************************************)
EXTENDS Integers, FiniteSets, Sequences, TLC

\* ------------------------------------------------------------------ bounds
\* Largest value of sqlite_sequence for docs explored by the model.
MaxSeq == 4

\* --------------------------------------------------------------- constants
\* security.MAX_PATH_LENGTH is not reached by any path of the model.

\* Index terms that occur in document bodies.
Terms == {"t1", "t2"}

\* Bodies of well-formed files: non-empty sets of terms.
Bodies == {{"t1"}, {"t2"}}

\* Paths relative to md_root.  inside = FALSE is a link whose target
\* resolves outside md_root.
PathA == [stem |-> "a", ext |-> "md", inside |-> TRUE]
PathB == [stem |-> "b", ext |-> "md", inside |-> TRUE]
PathE == [stem |-> "e", ext |-> "md", inside |-> FALSE]
PathN == [stem |-> "n", ext |-> "txt", inside |-> TRUE]

AllPaths == {PathA, PathB, PathE, PathN}

\* Long-lived database connections: the watcher's cached one.  The
\* connection of scripts/init_db.py ("cli") lives for one full_reindex.
Conns == {"w"}

\* A file on disk: absent, well-formed with a body, or malformed (ok = FALSE:
\* frontmatter.loads raises on it).
NoFile == [exists |-> FALSE, ok |-> TRUE, body |-> {}]

BadFile == [exists |-> TRUE, ok |-> FALSE, body |-> {}]

GoodFile(b) == [exists |-> TRUE, ok |-> TRUE, body |-> b]

\* Values a file may take: a.md takes every one, b.md and the link are absent
\* or hold one body, n.txt is always there.
FileValues(p) ==
    IF p = PathA THEN {NoFile, BadFile} \cup {GoodFile(b) : b \in Bodies}
    ELSE IF p = PathB THEN {NoFile, GoodFile({"t2"})}
    ELSE IF p = PathE THEN {NoFile, GoodFile({"t1"})}
    ELSE {GoodFile({"t1"})}

\* Watch events: src_path and is_directory.  The directory events are for a
\* directory named a.md.
Events ==
    [src_path : AllPaths, is_directory : {FALSE}]
        \cup [src_path : {PathA}, is_directory : {TRUE}]

VARIABLES
    docs,       \* table docs: set of rows [id, path, title, summary]
    docs_fts,   \* table docs_fts: set of rows [rowid, doc_id, title, content, path]
    seq,        \* sqlite_sequence value of docs
    lastRowid,  \* connection -> sqlite3_last_insert_rowid()
    last,       \* the last index operation and what it observed
    cmd,        \* progress of a create/modify/delete sequence on one path
    res,        \* the response to the last /search request
    txn,        \* the open transaction of the watcher's connection
    scan,       \* progress of a full_reindex running beside the watcher
    pure        \* argument and result of the text function applied last

vars == <<docs, docs_fts, seq, lastRowid, last, cmd, res, txn, scan, pure>>

\* ------------------------------------------------------------- path helpers
\* MdEventHandler._is_markdown_file: path.endswith('.md')
_is_markdown_file(p) == p.ext = "md"

\* security.validate_path_traversal: TRUE iff no SecurityError is raised.
validate_path_traversal(p) == p.inside

\* ---------------------------------------------------------------- parsing
\* A variant whose fallback forgets the file stem.
ExtractFallbackNoTitle(p, f) ==
    IF f.exists /\ f.ok
    THEN [title |-> p.stem, summary |-> f.body, content |-> f.body]
    ELSE [title |-> "", summary |-> {}, content |-> {}]

\* extract_text_from_md: (title, title_segmented, summary, content, content_segmented)
\* of the file f at path p.  Any exception (file unreadable, malformed
\* frontmatter) yields the fallback (stem, stem, "", "", "").
extract_text_from_md(p, f) ==
    IF f.exists /\ f.ok
    THEN [title |-> p.stem, summary |-> f.body, content |-> f.body]
    ELSE [title |-> p.stem, summary |-> {}, content |-> {}]

\* ----------------------------------------------------------- table helpers
DocRows(p) == {d \in docs : d.path = p}

DocIds == {d.id : d \in docs}

MaxRowid(rows) ==
    IF rows = {} THEN 0
    ELSE CHOOSE m \in {r.rowid : r \in rows} : \A r \in rows : r.rowid <= m

\* rowid fts5 gives to a row inserted into rows
NextFtsRowid(rows) == MaxRowid(rows) + 1


\* The database as one value: the two tables, sqlite_sequence, and each
\* connection's last_insert_rowid; docId and acted report what the last
\* index_file on it did (the doc_id it used, whether it wrote).
DB(d, f, s, lr) ==
    [docs |-> d, fts |-> f, seq |-> s, lr |-> lr, docId |-> 0, acted |-> FALSE]

CurrentDB == DB(docs, docs_fts, seq, lastRowid)

\* ---------------------------------------------------------------- indexer
\* index_file, the UPSERT into docs: the docs table afterwards.
UpsertDocs(db, p, info) ==
    IF \E d \in db.docs : d.path = p
    THEN {IF d.path = p
          THEN [d EXCEPT !.title = info.title, !.summary = info.summary]
          ELSE d : d \in db.docs}
    ELSE db.docs \cup {[id |-> db.seq + 1, path |-> p,
                        title |-> info.title, summary |-> info.summary]}

\* last_insert_rowid of the connection after the UPSERT: set by a real
\* INSERT, untouched when the conflict clause made it an UPDATE.
UpsertLastRowid(db, c, p) ==
    IF \E d \in db.docs : d.path = p THEN db.lr[c] ELSE db.seq + 1

\* index_file, "doc_id = cursor.lastrowid; if doc_id == 0: SELECT id ...".
\* newDocs is docs after the UPSERT, lr the connection's last_insert_rowid.
LookupDocId(newDocs, p, lr) ==
    IF lr = 0
    THEN (CHOOSE d \in newDocs : d.path = p).id
    ELSE lr

\* index_file, "DELETE FROM docs_fts WHERE doc_id = ?"
DeleteFts(rows, doc_id) == {r \in rows : r.doc_id # doc_id}

\* index_file, "INSERT INTO docs_fts (doc_id, title, content, path)"
InsertFts(rows, doc_id, info, p) ==
    rows \cup {[rowid |-> NextFtsRowid(rows), doc_id |-> doc_id,
                title |-> info.title, content |-> info.content, path |-> p]}

\* TRUE iff index_file(conn, p) reaches its SQL statements: the path passes
\* validate_path_traversal and os.path.getmtime finds the file.
IndexFileWrites(p, f) == validate_path_traversal(p) /\ f.exists

\* index_file(conn, path): the database after the call on connection c for
\* path p whose file is f.  A SecurityError returns early, a missing file
\* raises at os.path.getmtime; neither has touched the database.
index_file(db, c, p, f) ==
    IF ~IndexFileWrites(p, f)
    THEN [db EXCEPT !.docId = 0, !.acted = FALSE]
    ELSE LET info    == extract_text_from_md(p, f)
             newDocs == UpsertDocs(db, p, info)
             lr      == UpsertLastRowid(db, c, p)
             doc_id  == LookupDocId(newDocs, p, lr)
             kept    == DeleteFts(db.fts, doc_id)
             newFts  == InsertFts(kept, doc_id, info, p)
         IN  [docs  |-> newDocs,
              fts   |-> newFts,
              seq   |-> db.seq + 1,
              lr    |-> [db.lr EXCEPT ![c] = NextFtsRowid(kept)],
              docId |-> doc_id,
              acted |-> TRUE]

\* A variant that empties both tables when the path has no docs row.
RemoveUnknownClears(db, c, p) ==
    IF \E d \in db.docs : d.path = p
    THEN LET doc_id == (CHOOSE d \in db.docs : d.path = p).id
         IN  [db EXCEPT !.fts = {r \in db.fts : r.doc_id # doc_id},
                        !.docs = {d \in db.docs : d.id # doc_id},
                        !.docId = doc_id,
                        !.acted = TRUE]
    ELSE [db EXCEPT !.docs = {}, !.fts = {}, !.docId = 0, !.acted = FALSE]

\* remove_file_from_index(conn, path)
remove_file_from_index(db, c, p) ==
    IF \E d \in db.docs : d.path = p
    THEN LET doc_id == (CHOOSE d \in db.docs : d.path = p).id
         IN  [db EXCEPT !.fts = {r \in db.fts : r.doc_id # doc_id},
                        !.docs = {d \in db.docs : d.id # doc_id},
                        !.docId = doc_id,
                        !.acted = TRUE]
    ELSE [db EXCEPT !.docId = 0, !.acted = FALSE]

\* iter_md_files(root): the regular files matching *.md under root.
iter_md_files(files) ==
    {p \in DOMAIN files : p.ext = "md" /\ files[p].exists}

\* The orders in which a scan may yield the files of S.
ScanOrders(S) ==
    {o \in [1..Cardinality(S) -> S] : \A i, j \in DOMAIN o : o[i] = o[j] => i = j}

\* A variant whose loop ends at the first file index_file did not index.
RECURSIVE IndexAllAborts(_, _, _, _)
IndexAllAborts(db, c, order, files) ==
    IF order = <<>> THEN db
    ELSE LET r == index_file(db, c, Head(order), files[Head(order)])
         IN  IF r.acted THEN IndexAllAborts(r, c, Tail(order), files)
             ELSE [db EXCEPT !.acted = FALSE]

\* full_reindex, the loop "for md_file in iter_md_files(md_root): index_file"
\* inside try/except: a call that raises leaves the database as it was and
\* the loop goes on with the next file.
RECURSIVE IndexAll(_, _, _, _)
IndexAll(db, c, order, files) ==
    IF order = <<>> THEN db
    ELSE IndexAll(index_file(db, c, Head(order), files[Head(order)]),
                  c, Tail(order), files)

\* A variant that forgets "DELETE FROM docs".
ClearTablesKeepsDocs(db) == [db EXCEPT !.fts = {}]

\* full_reindex, "DELETE FROM docs_fts; DELETE FROM docs; commit"
ClearTables(db) == [db EXCEPT !.docs = {}, !.fts = {}]

\* A variant that tests for md_root before it clears the tables.
FullReindexChecksFirst(db, c, order, files, rootExists) ==
    IF rootExists
    THEN IndexAll(ClearTables(db), c, order, files)
    ELSE db

\* full_reindex(conn) with the scan yielding the files in the given order;
\* when md_root does not exist it raises after the tables were cleared.
full_reindex(db, c, order, files, rootExists) ==
    IF rootExists
    THEN IndexAll(ClearTables(db), c, order, files)
    ELSE ClearTables(db)

\* --------------------------------------------------------- search (count)
\* The tokens the fts5 row r is indexed under: its title, content and path
\* columns (doc_id is UNINDEXED).
RowTokens(r) == r.content \cup {r.title} \cup {r.path.stem, r.path.ext}

\* search_documents, count_query: SELECT COUNT(*) FROM docs_fts WHERE
\* docs_fts MATCH q, for a query q given as its set of terms.
SearchTotal(rows, q) == Cardinality({r \in rows : q \subseteq RowTokens(r)})

\* --------------------------------------------------------- search (query)
\* A query string is a sequence of words separated by single spaces; the
\* word " " is a further run of whitespace, "OR" the fts5 operator keyword.
\* <<>> is the empty string.  No word of the model has a CJK character.
Queries == {<<"t2", " ">>, <<"a">>, <<"a", " ", "t1">>, <<"a", " ", "OR", " ", "t2">>}

\* The query strings the /search route may receive.
Requests == Queries \cup {<<>>, <<" ">>}

Limits == {1, 2}

Offsets == {0, 1}

\* config.Settings.max_search_limit
max_search_limit == 100

\* security.MAX_QUERY_LENGTH
MAX_QUERY_LENGTH == 500

Min(a, b) == IF a < b THEN a ELSE b

Max(a, b) == IF a > b THEN a ELSE b

\* --------------------------------------------------------------- characters
\* A string is a sequence of characters, each named by a string: "P", "y",
\* "a" are Latin letters, " " and "\t" whitespace, "U+673A" and "U+4E00" are
\* ideographs of the block CJK Unified Ideographs and "U+3400" is an
\* ideograph of CJK Unified Ideographs Extension A.  A word of the search
\* requests above ("t1", "t2", "OR") stands for its Latin letters.
MaxLen == 4

Alphabet == {"P", "y", " ", "\t", "U+673A", "U+4E00", "U+3400"}

\* The strings of at most n characters.
StringsUpTo(n) == UNION {[1..k -> Alphabet] : k \in 0..n}

\* ord(ch), the code point of a character.
ord(ch) ==
    CASE ch = " "      -> 32
      [] ch = "\t"     -> 9
      [] ch = "P"      -> 80
      [] ch = "y"      -> 121
      [] ch = "a"      -> 97
      [] ch = "k"      -> 107
      [] ch = "x"      -> 120
      [] ch = "7"      -> 55
      [] ch = "<"      -> 60
      [] ch = ">"      -> 62
      [] ch = "OR"     -> 79
      [] ch = "U+3400" -> 13312
      [] ch = "U+4E00" -> 19968
      [] ch = "U+673A" -> 26426
      [] OTHER         -> 116

\* A variant whose range starts one code point late.
IsCjkFrom4E01(ch) == 19969 <= ord(ch) /\ ord(ch) <= 40959

\* is_cjk = '一' <= char <= '鿿'
is_cjk(ch) == 19968 <= ord(ch) /\ ord(ch) <= 40959

\* char in ' \t\n\r'
is_whitespace(ch) == ch \in {" ", "\t"}

\* str.isspace()
isspace(ch) == ch \in {" ", "\t"}

\* str.strip()
RECURSIVE lstrip(_)
lstrip(q) == IF q # <<>> /\ isspace(Head(q)) THEN lstrip(Tail(q)) ELSE q

RECURSIVE rstrip(_)
rstrip(q) ==
    IF q # <<>> /\ isspace(q[Len(q)]) THEN rstrip(SubSeq(q, 1, Len(q) - 1)) ELSE q

strip(q) == rstrip(lstrip(q))

\* str.split(): the maximal runs of characters that are not whitespace; cur
\* is the run being read and acc the runs read.
RECURSIVE SplitLoop(_, _, _)
SplitLoop(s, cur, acc) ==
    IF s = <<>> THEN (IF cur = <<>> THEN acc ELSE Append(acc, cur))
    ELSE IF isspace(Head(s))
         THEN SplitLoop(Tail(s), <<>>, IF cur = <<>> THEN acc ELSE Append(acc, cur))
         ELSE SplitLoop(Tail(s), Append(cur, Head(s)), acc)

split(s) == SplitLoop(s, <<>>, <<>>)

\* The loop of _segment_chinese_text over the characters rest not read yet.
RECURSIVE SegmentTextLoop(_, _, _)
SegmentTextLoop(result, prev_is_cjk, rest) ==
    IF rest = <<>> THEN result
    ELSE LET char   == Head(rest)
             cjk    == is_cjk(char)
             ws     == is_whitespace(char)
             before == IF /\ prev_is_cjk /\ ~cjk /\ ~ws
                          /\ result # <<>> /\ result[Len(result)] # " "
                       THEN Append(result, " ")
                       ELSE IF /\ ~prev_is_cjk /\ cjk /\ result # <<>>
                               /\ ~is_whitespace(result[Len(result)])
                            THEN Append(result, " ")
                            ELSE result
             with   == Append(before, char)
             after  == IF cjk /\ ~ws THEN Append(with, " ") ELSE with
         IN  SegmentTextLoop(after, cjk, Tail(rest))

\* indexer._segment_chinese_text
_segment_chinese_text(text) ==
    IF text = <<>> THEN text ELSE SegmentTextLoop(<<>>, FALSE, text)

\* The loop of _segment_chinese_query over the characters rest not read yet.
RECURSIVE SegmentQueryLoop(_, _, _)
SegmentQueryLoop(result, prev_is_cjk, rest) ==
    IF rest = <<>> THEN result
    ELSE LET char   == Head(rest)
             cjk    == is_cjk(char)
             before == IF prev_is_cjk /\ ~cjk /\ ~is_whitespace(char)
                       THEN Append(result, " ")
                       ELSE IF /\ ~prev_is_cjk /\ cjk /\ result # <<>>
                               /\ ~is_whitespace(result[Len(result)])
                            THEN Append(result, " ")
                            ELSE result
             with   == Append(before, char)
             after  == IF cjk THEN Append(with, " ") ELSE with
         IN  SegmentQueryLoop(after, cjk, Tail(rest))

\* A variant that only strips the query.
SegmentQueryUnsplit(q) == IF q = <<>> THEN q ELSE strip(q)

\* search_service._segment_chinese_query
_segment_chinese_query(q) ==
    IF q = <<>> THEN q ELSE strip(SegmentQueryLoop(<<>>, FALSE, q))

\* The tokenizer of docs_fts, "unicode61 remove_diacritics 1", on a text of
\* letters, ideographs and whitespace: whitespace separates the tokens and
\* each letter is folded to lower case.
tolower(ch) == IF ch = "P" THEN "p" ELSE ch

unicode61(s) ==
    LET t == split(s)
    IN  [i \in DOMAIN t |-> [j \in DOMAIN t[i] |-> tolower(t[i][j])]]

\* The words fts5 parses out of a MATCH argument: whitespace separates.
Fts5Words(q) == SelectSeq(q, LAMBDA w : w # " ")

\* fts5 raises "syntax error" on an empty expression and on an OR that lacks
\* an operand.
Fts5SyntaxError(q) ==
    LET w == Fts5Words(q)
    IN  w = <<>> \/ w[1] = "OR" \/ w[Len(w)] = "OR"

\* The terms of a MATCH argument.
QueryTerms(q) == {Fts5Words(q)[i] : i \in 1..Len(Fts5Words(q))} \ {"OR"}

Fts5HasOr(q) == \E i \in 1..Len(Fts5Words(q)) : Fts5Words(q)[i] = "OR"

\* docs_fts MATCH q for row r: terms side by side are an implicit AND,
\* "x OR y" is a union.
Fts5Match(r, q) ==
    IF Fts5HasOr(q)
    THEN \E t \in QueryTerms(q) : t \in RowTokens(r)
    ELSE \A t \in QueryTerms(q) : t \in RowTokens(r)

\* Occurrences of term t in the indexed columns of row r.
Hits(r, t) ==
    (IF t = r.title THEN 1 ELSE 0) + (IF t \in r.content THEN 1 ELSE 0)
        + (IF t = r.path.stem THEN 1 ELSE 0) + (IF t = r.path.ext THEN 1 ELSE 0)

RECURSIVE SumHits(_, _)
SumHits(r, ts) ==
    IF ts = {} THEN 0
    ELSE LET t == CHOOSE x \in ts : TRUE
         IN  Hits(r, t) + SumHits(r, ts \ {t})

\* Tokens in the indexed columns of row r.
RowLen(r) == 1 + Cardinality(r.content) + 2

\* bm25(docs_fts): smaller is more relevant.  An integer stand-in with
\* BM25's monotonicity: it falls with every occurrence of a query term and
\* rises with the length of the row; rows with equal occurrences and equal
\* length get equal ranks.
bm25(r, q) == RowLen(r) - 10 * SumHits(r, QueryTerms(q))

\* snippet(docs_fts, 2, '<mark>', '</mark>', '...', n): the content column
\* of row r, the query's terms in it marked.
snippet(r, q) == [text |-> r.content, marked |-> r.content \cap QueryTerms(q)]

\* count_query: SELECT COUNT(*) FROM docs_fts WHERE docs_fts MATCH q
CountQuery(fts, q) == Cardinality({r \in fts : Fts5Match(r, q)})

\* search_query before ORDER BY: docs_fts JOIN docs d ON d.id =
\* docs_fts.doc_id WHERE docs_fts MATCH q, with the selected columns; rowid
\* is the docs_fts rowid of the joined row.
JoinQuery(d, fts, q) ==
    {[id |-> x[1].id, title |-> x[1].title, path |-> x[1].path,
      snippet |-> snippet(x[2], q), rank |-> bm25(x[2], q), rowid |-> x[2].rowid] :
        x \in {y \in d \X fts : y[1].id = y[2].doc_id /\ Fts5Match(y[2], q)}}

\* A variant that sorts the other way round.
RECURSIVE OrderByRankDesc(_)
OrderByRankDesc(S) ==
    IF S = {} THEN <<>>
    ELSE LET m == CHOOSE x \in S : \A o \in S :
                      \/ x.rank > o.rank
                      \/ x.rank = o.rank /\ x.rowid <= o.rowid
         IN  <<m>> \o OrderByRankDesc(S \ {m})

\* ORDER BY rank: ascending rank; SQL leaves the order of equal ranks open,
\* and SQLite's sorter returns them in the order of the docs_fts scan, which
\* is ascending rowid.
RECURSIVE OrderByRank(_)
OrderByRank(S) ==
    IF S = {} THEN <<>>
    ELSE LET m == CHOOSE x \in S : \A o \in S :
                      \/ x.rank < o.rank
                      \/ x.rank = o.rank /\ x.rowid <= o.rowid
         IN  <<m>> \o OrderByRank(S \ {m})

\* LIMIT limit OFFSET offset
LimitOffset(rows, limit, offset) ==
    SubSeq(rows, offset + 1, Min(offset + limit, Len(rows)))

\* search_documents(query, limit, offset): the count query reads docs_fts as
\* ftsC, the search query reads the tables as d and fts.  raised: the MATCH
\* ended in sqlite3.OperationalError.  No call of the model leaves limit out.
search_documents(ftsC, d, fts, query, limit, offset) ==
    LET lim == IF limit > max_search_limit THEN max_search_limit ELSE limit
        sq  == _segment_chinese_query(query)
    IN  IF Fts5SyntaxError(sq)
        THEN [raised |-> TRUE, total |-> 0, results |-> <<>>]
        ELSE [raised |-> FALSE, total |-> CountQuery(ftsC, sq),
              results |-> LimitOffset(OrderByRank(JoinQuery(d, fts, sq)), lim, offset)]

\* A variant of the route without the whitespace test.
SearchNoBlankTest(ftsC, d, fts, q, limit, offset) ==
    IF q = <<>> \/ Len(q) > MAX_QUERY_LENGTH
    THEN [status |-> 422, called |-> FALSE, total |-> 0, results |-> <<>>]
    ELSE LET r == search_documents(ftsC, d, fts, q, limit, offset)
         IN  IF r.raised
             THEN [status |-> 500, called |-> TRUE, total |-> 0, results |-> <<>>]
             ELSE [status |-> 200, called |-> TRUE, total |-> r.total,
                   results |-> r.results]

\* api.search, GET /search: q of length 0 fails Query(min_length=1), a blank
\* q and a q longer than MAX_QUERY_LENGTH raise HTTPException(422); then
\* search_documents is called (called = TRUE) and an exception from it
\* becomes status 500.  Len counts words here.
search(ftsC, d, fts, q, limit, offset) ==
    IF q = <<>> \/ strip(q) = <<>> \/ Len(q) > MAX_QUERY_LENGTH
    THEN [status |-> 422, called |-> FALSE, total |-> 0, results |-> <<>>]
    ELSE LET r == search_documents(ftsC, d, fts, q, limit, offset)
         IN  IF r.raised
             THEN [status |-> 500, called |-> TRUE, total |-> 0, results |-> <<>>]
             ELSE [status |-> 200, called |-> TRUE, total |-> r.total,
                   results |-> r.results]

\* ------------------------------------------------------ observation record
\* The columns of docs_fts (the rowid is not a column of the table).
FtsData(rows) ==
    {[doc_id |-> r.doc_id, title |-> r.title, content |-> r.content,
      path |-> r.path] : r \in rows}

\* TRUE iff every docs row of d has exactly one docs_fts row in f with
\* doc_id = its id, and every row of f has the id of a row of d as doc_id.
Paired(d, f) ==
    /\ \A x \in d : Cardinality({r \in f : r.doc_id = x.id}) = 1
    /\ \A r \in f : \E x \in d : x.id = r.doc_id

NoCmd == [stage |-> 0, path |-> PathA, docs0 |-> {}, fts0 |-> {}, real |-> FALSE]

\* What the step just taken was: op is the operation, path and dir its
\* argument, file the file it read at path (NoFile when it read none), docId
\* the doc_id it used on docs_fts, acted whether it wrote, raised whether it
\* ended in an exception, scanned the files a rebuild's scan yielded,
\* unpaired whether a rebuild started with tables that were not paired,
\* failed the scanned files whose index_file raised inside a rebuild, dest
\* the new path of a move (the path itself otherwise).
Last(op, p, dir, f, r, raised, scanned) ==
    [op |-> op, path |-> p, dir |-> dir, file |-> IF r.acted THEN f ELSE NoFile,
     docId |-> r.docId, acted |-> r.acted, raised |-> raised,
     scanned |-> scanned, failed |-> {},
     unpaired |-> op = "reindex" /\ ~Paired(docs, docs_fts), dest |-> p]

OldId(p) == IF DocRows(p) = {} THEN 0 ELSE (CHOOSE d \in DocRows(p) : TRUE).id

\* TRUE iff neither table mentions path p.
Unknown(p) == DocRows(p) = {} /\ ~\E r \in docs_fts : r.path = p

\* No request has been answered since the last index operation.
NoRes == [q |-> <<>>, limit |-> 0, offset |-> 0, status |-> 0, called |-> FALSE,
          total |-> 0, results |-> <<>>, mixed |-> FALSE]

\* The response r to GET /search?q=..&limit=..&offset=..; mixed: a commit
\* changed the tables between the request's two SELECTs.
Res(q, limit, offset, r, mixed) ==
    [q |-> q, limit |-> limit, offset |-> offset, status |-> r.status,
     called |-> r.called, total |-> r.total, results |-> r.results,
     mixed |-> mixed]

\* The watcher's connection has no transaction open.  Otherwise pc is the
\* statement of index_file or remove_file_from_index executed last, path and
\* file its argument, and db the database as that connection sees it.
NoTxn == [pc |-> "idle", path |-> PathA, file |-> NoFile,
          db |-> DB({}, {}, 0, [c \in Conns |-> 0])]

\* No rebuild is running.  Otherwise pc = "scanning": full_reindex has
\* committed the two DELETEs, todo are the scanned files its loop has not
\* indexed yet, and lr is the last_insert_rowid of its connection.
NoScan == [pc |-> "idle", todo |-> {}, lr |-> 0]

\* No text function has been applied.
NoPure == [fn |-> "none", arg |-> <<>>, query |-> <<>>, ok |-> TRUE,
           out |-> <<>>, out2 |-> <<>>]

SetDB(r) ==
    /\ docs' = r.docs
    /\ docs_fts' = r.fts
    /\ seq' = r.seq
    /\ lastRowid' = r.lr
    /\ res' = NoRes
    /\ txn = NoTxn
    /\ txn' = NoTxn
    /\ UNCHANGED <<scan, pure>>

\* The states of the directory tree a scan or an event handler may find.
FileSystems == {fs \in [AllPaths -> UNION {FileValues(p) : p \in AllPaths}] :
                   \A p \in AllPaths : fs[p] \in FileValues(p)}

NoFiles == [p \in AllPaths |-> NoFile]

\* ------------------------------------------------------------------- Init
\* init_db: both tables created empty; no connection has inserted yet.
InitTables ==
    /\ docs = {}
    /\ docs_fts = {}
    /\ seq = 0
    /\ lastRowid = [c \in Conns |-> 0]
    /\ last = [op |-> "init", path |-> PathA, dir |-> FALSE, file |-> NoFile,
               docId |-> 0, acted |-> FALSE, raised |-> FALSE,
               scanned |-> {}, failed |-> {}, unpaired |-> FALSE, dest |-> PathA]
    /\ cmd = NoCmd
    /\ res = NoRes
    /\ txn = NoTxn
    /\ scan = NoScan

Init == InitTables /\ pure = NoPure

\* ------------------------------------------------------------- the watcher
\* A variant without the is_directory test.
IgnoredForgetsDirectory(e) == ~_is_markdown_file(e.src_path)

\* TRUE iff the handlers return before touching the index.
Ignored(e) == e.is_directory \/ ~_is_markdown_file(e.src_path)

\* The database after on_created / on_modified handled event e, the file at
\* e.src_path being f when the handler reads it.
HandleUpsert(e, f) ==
    IF Ignored(e) THEN CurrentDB
    ELSE index_file(CurrentDB, "w", e.src_path, f)

\* The database after on_deleted handled event e.
HandleDelete(e) ==
    IF Ignored(e) THEN CurrentDB
    ELSE remove_file_from_index(CurrentDB, "w", e.src_path)

\* MdEventHandler.on_created
OnCreated(e, f) ==
    LET p == e.src_path
        r == HandleUpsert(e, f)
    IN  /\ r.seq <= MaxSeq
        /\ SetDB(r)
        /\ last' = Last("created", p, e.is_directory, f, r,
                        ~Ignored(e) /\ validate_path_traversal(p) /\ ~r.acted, {})
        /\ cmd' = IF ~Ignored(e) /\ Unknown(p)
                  THEN [stage |-> 1, path |-> p, docs0 |-> docs,
                        fts0 |-> FtsData(docs_fts), real |-> r.acted]
                  ELSE NoCmd

\* MdEventHandler.on_modified
OnModified(e, f) ==
    LET p == e.src_path
        r == HandleUpsert(e, f)
    IN  /\ r.seq <= MaxSeq
        /\ SetDB(r)
        /\ last' = Last("modified", p, e.is_directory, f, r,
                        ~Ignored(e) /\ validate_path_traversal(p) /\ ~r.acted, {})
        /\ cmd' = IF ~Ignored(e) /\ cmd.stage = 1 /\ cmd.path = p
                  THEN [cmd EXCEPT !.stage = 2, !.real = cmd.real /\ r.acted]
                  ELSE NoCmd

\* MdEventHandler.on_deleted
OnDeleted(e) ==
    LET p == e.src_path
        r == HandleDelete(e)
    IN  /\ SetDB(r)
        /\ last' = Last("deleted", p, e.is_directory, NoFile, r, FALSE, {})
        /\ cmd' = IF ~Ignored(e) /\ cmd.stage = 2 /\ cmd.path = p
                  THEN [cmd EXCEPT !.stage = 3]
                  ELSE NoCmd

\* ------------------------------------------------------------ full rebuild
\* full_reindex(conn) on connection c, md_root holding the files fs (none
\* when md_root does not exist).
FullReindex(c, fs, rootExists) ==
    \E order \in ScanOrders(iter_md_files(fs)) :
        LET db == [CurrentDB EXCEPT !.lr = [k \in Conns \cup {c} |->
                                               IF k \in Conns THEN lastRowid[k] ELSE 0]]
            r  == full_reindex(db, c, order, fs, rootExists)
        IN  /\ rootExists \/ fs = NoFiles
            /\ r.seq <= MaxSeq
            /\ docs' = r.docs
            /\ docs_fts' = r.fts
            /\ seq' = r.seq
            /\ lastRowid' = [k \in Conns |-> r.lr[k]]
            /\ last' = Last("reindex", PathA, FALSE, NoFile, r, ~rootExists,
                            iter_md_files(fs))
            /\ cmd' = NoCmd
            /\ res' = NoRes
            /\ txn = NoTxn
            /\ txn' = NoTxn
            /\ UNCHANGED <<scan, pure>>

\* full_reindex(conn) while the directory changes: the scan yields the .md
\* files of fs, and file g is deleted after the scan found it and before
\* index_file reads it, so that os.path.getmtime raises for it.
FullReindexRace(c, fs, g) ==
    \E order \in ScanOrders(iter_md_files(fs)) :
        LET db  == [CurrentDB EXCEPT !.lr = [k \in Conns \cup {c} |->
                                               IF k \in Conns THEN lastRowid[k] ELSE 0]]
            now == [fs EXCEPT ![g] = NoFile]
            r   == full_reindex(db, c, order, now, TRUE)
        IN  /\ g \in iter_md_files(fs)
            /\ validate_path_traversal(g)
            /\ r.seq <= MaxSeq
            /\ docs' = r.docs
            /\ docs_fts' = r.fts
            /\ seq' = r.seq
            /\ lastRowid' = [k \in Conns |-> r.lr[k]]
            /\ last' = [Last("reindex", PathA, FALSE, NoFile, r, FALSE,
                             iter_md_files(fs)) EXCEPT !.failed = {g}]
            /\ cmd' = NoCmd
            /\ res' = NoRes
            /\ txn = NoTxn
            /\ txn' = NoTxn
            /\ UNCHANGED <<scan, pure>>

\* db.get_connection(): connection c is closed and opened anew.
Reconnect(c) ==
    /\ lastRowid[c] # 0
    /\ lastRowid' = [lastRowid EXCEPT ![c] = 0]
    /\ last' = Last("connect", PathA, FALSE, NoFile, CurrentDB, FALSE, {})
    /\ cmd' = NoCmd
    /\ res' = NoRes
    /\ txn = NoTxn
    /\ txn' = NoTxn
    /\ UNCHANGED <<docs, docs_fts, seq, scan, pure>>

\* ---------------------------------------------------------------- search
\* GET /search answered from the tables as they are: its connection is
\* opened for the request and reads committed rows.
Search(q, limit, offset) ==
    /\ res' = Res(q, limit, offset,
                  search(docs_fts, docs, docs_fts, q, limit, offset), FALSE)
    /\ last' = Last("search", PathA, FALSE, NoFile, CurrentDB, FALSE, {})
    /\ cmd' = NoCmd
    /\ UNCHANGED <<docs, docs_fts, seq, lastRowid, txn, scan, pure>>

\* GET /search while the watcher handles event e: index_file commits after
\* the request's count query and before its search query.
SearchRace(e, f) ==
    LET r == HandleUpsert(e, f)
    IN  /\ r.acted
        /\ r.seq <= MaxSeq
        /\ docs' = r.docs
        /\ docs_fts' = r.fts
        /\ seq' = r.seq
        /\ lastRowid' = r.lr
        /\ \E q \in Queries : \E limit \in Limits : \E offset \in Offsets :
              res' = Res(q, limit, offset,
                         search(docs_fts, r.docs, r.fts, q, limit, offset),
                         r.docs # docs \/ FtsData(r.fts) # FtsData(docs_fts))
        /\ last' = Last("search", PathA, FALSE, NoFile,
                        [r EXCEPT !.docId = 0, !.acted = FALSE], FALSE, {})
        /\ cmd' = NoCmd
        /\ txn = NoTxn
        /\ txn' = NoTxn
        /\ UNCHANGED <<scan, pure>>

Next ==
    \/ \E e \in Events : \E f \in FileValues(e.src_path) : OnCreated(e, f)
    \/ \E e \in Events : \E f \in FileValues(e.src_path) : OnModified(e, f)
    \/ \E e \in Events : OnDeleted(e)
    \/ \E fs \in FileSystems : FullReindex("cli", fs, TRUE)
    \/ \E c \in Conns : Reconnect(c)

Spec == Init /\ [][Next]_vars

\* The same program with rebuilds during which a file disappears and
\* rebuilds that find no md_root.
NextScan ==
    \/ Next
    \/ \E fs \in FileSystems : \E g \in AllPaths : FullReindexRace("cli", fs, g)
    \/ FullReindex("cli", NoFiles, FALSE)

SpecScan == Init /\ [][NextScan]_vars

\* The events that reach the index: files a.md and b.md.
FileEvents == {e \in Events : ~Ignored(e) /\ validate_path_traversal(e.src_path)}

\* ------------------------------------------------- statement by statement
\* on_created / on_modified, index_file up to "doc_id = ...": the UPSERT into
\* docs opens a transaction on the watcher's connection, then the doc_id is
\* taken from lastrowid or looked up.
TxnUpsert(e, f) ==
    LET p       == e.src_path
        info    == extract_text_from_md(p, f)
        newDocs == UpsertDocs(CurrentDB, p, info)
        lr      == UpsertLastRowid(CurrentDB, "w", p)
    IN  /\ txn = NoTxn
        /\ ~Ignored(e)
        /\ IndexFileWrites(p, f)
        /\ seq + 1 <= MaxSeq
        /\ txn' = [pc |-> "upsert", path |-> p, file |-> f,
                   db |-> [docs  |-> newDocs,
                           fts   |-> docs_fts,
                           seq   |-> seq + 1,
                           lr    |-> [lastRowid EXCEPT !["w"] = lr],
                           docId |-> LookupDocId(newDocs, p, lr),
                           acted |-> TRUE]]
        /\ last' = Last("begin", p, FALSE, NoFile, CurrentDB, FALSE, {})
        /\ cmd' = NoCmd
        /\ res' = NoRes
        /\ UNCHANGED <<docs, docs_fts, seq, lastRowid, scan, pure>>

\* index_file, "DELETE FROM docs_fts WHERE doc_id = ?"
TxnDeleteFts ==
    /\ txn.pc = "upsert"
    /\ txn' = [txn EXCEPT !.pc = "delete",
                          !.db.fts = DeleteFts(txn.db.fts, txn.db.docId)]
    /\ res' = NoRes
    /\ UNCHANGED <<docs, docs_fts, seq, lastRowid, last, cmd, scan, pure>>

\* index_file, "INSERT INTO docs_fts ..."
TxnInsertFts ==
    /\ txn.pc = "delete"
    /\ txn' = [txn EXCEPT !.pc = "insert",
                          !.db.fts = InsertFts(txn.db.fts, txn.db.docId,
                                               extract_text_from_md(txn.path, txn.file),
                                               txn.path),
                          !.db.lr["w"] = NextFtsRowid(txn.db.fts)]
    /\ res' = NoRes
    /\ UNCHANGED <<docs, docs_fts, seq, lastRowid, last, cmd, scan, pure>>

\* on_deleted, remove_file_from_index up to the first DELETE: the path has a
\* docs row, and its docs_fts rows are deleted in a new transaction.
TxnRemoveFts(e) ==
    LET p == e.src_path
    IN  /\ txn = NoTxn
        /\ ~Ignored(e)
        /\ DocRows(p) # {}
        /\ txn' = [pc |-> "remove_fts", path |-> p, file |-> NoFile,
                   db |-> [CurrentDB EXCEPT !.fts = DeleteFts(docs_fts, OldId(p)),
                                            !.docId = OldId(p),
                                            !.acted = TRUE]]
        /\ last' = Last("begin", p, FALSE, NoFile, CurrentDB, FALSE, {})
        /\ cmd' = NoCmd
        /\ res' = NoRes
        /\ UNCHANGED <<docs, docs_fts, seq, lastRowid, scan, pure>>

\* remove_file_from_index, "DELETE FROM docs WHERE id = ?"
TxnRemoveDocs ==
    /\ txn.pc = "remove_fts"
    /\ txn' = [txn EXCEPT !.pc = "remove_docs",
                          !.db.docs = {d \in txn.db.docs : d.id # txn.db.docId}]
    /\ res' = NoRes
    /\ UNCHANGED <<docs, docs_fts, seq, lastRowid, last, cmd, scan, pure>>

\* conn.commit(): the transaction's rows become the tables every connection
\* reads.
TxnCommit ==
    /\ txn.pc \in {"insert", "remove_docs"}
    /\ docs' = txn.db.docs
    /\ docs_fts' = txn.db.fts
    /\ seq' = txn.db.seq
    /\ lastRowid' = txn.db.lr
    /\ last' = Last(IF txn.pc = "insert" THEN "modified" ELSE "deleted",
                    txn.path, FALSE, txn.file, txn.db, FALSE, {})
    /\ cmd' = NoCmd
    /\ res' = NoRes
    /\ txn' = NoTxn
    /\ UNCHANGED <<scan, pure>>

\* The search requests sent while the watcher works.
TxnQueries == {<<"a">>, <<"t2", " ">>}

\* The watcher statement by statement and the search route, whose connection
\* reads the committed tables.
NextTxn ==
    \/ \E e \in FileEvents : \E f \in FileValues(e.src_path) : TxnUpsert(e, f)
    \/ TxnDeleteFts
    \/ TxnInsertFts
    \/ \E e \in FileEvents : TxnRemoveFts(e)
    \/ TxnRemoveDocs
    \/ TxnCommit
    \/ \E c \in Conns : Reconnect(c)
    \/ \E q \in TxnQueries : Search(q, 2, 0)

SpecTxn == Init /\ [][NextTxn]_vars

\* The watcher and the search route.
NextSearch ==
    \/ \E e \in FileEvents : \E f \in FileValues(e.src_path) : OnCreated(e, f)
    \/ \E e \in FileEvents : \E f \in FileValues(e.src_path) : OnModified(e, f)
    \/ \E e \in FileEvents : OnDeleted(e)
    \/ \E c \in Conns : Reconnect(c)
    \/ \E q \in Requests : \E l \in Limits : \E o \in Offsets : Search(q, l, o)

SpecSearch == Init /\ [][NextSearch]_vars

\* The watcher committing while the search route answers.
NextRace ==
    \/ \E e \in FileEvents : \E f \in FileValues(e.src_path) : OnCreated(e, f)
    \/ \E e \in FileEvents : \E f \in FileValues(e.src_path) : OnModified(e, f)
    \/ \E e \in FileEvents : OnDeleted(e)
    \/ \E c \in Conns : Reconnect(c)
    \/ \E e \in FileEvents : \E f \in FileValues(e.src_path) : SearchRace(e, f)

SpecRace == Init /\ [][NextRace]_vars

\* ------------------------------------------- rebuild beside the watcher
\* full_reindex up to the scan, on a connection of its own (scripts/init_db.py
\* opens one): both tables are emptied and the deletion is committed; md_root
\* exists and the scan finds the .md files of fs.
RebuildClear(fs) ==
    LET r == ClearTables(CurrentDB)
    IN  /\ scan = NoScan
        /\ txn = NoTxn
        /\ docs' = r.docs
        /\ docs_fts' = r.fts
        /\ scan' = IF iter_md_files(fs) = {} THEN NoScan
                   ELSE [pc |-> "scanning", todo |-> iter_md_files(fs), lr |-> 0]
        /\ last' = Last("reindex", PathA, FALSE, NoFile, r, FALSE, iter_md_files(fs))
        /\ cmd' = NoCmd
        /\ res' = NoRes
        /\ UNCHANGED <<seq, lastRowid, txn, pure>>

\* One turn of full_reindex's loop: index_file(conn, p) for a scanned file p
\* not indexed yet, f being the file at p when it is read; an exception of
\* index_file is caught and the loop goes on.
RebuildIndex(p, f) ==
    LET db == [CurrentDB EXCEPT !.lr = [k \in Conns \cup {"cli"} |->
                                           IF k \in Conns THEN lastRowid[k] ELSE scan.lr]]
        r  == index_file(db, "cli", p, f)
    IN  /\ scan.pc = "scanning"
        /\ p \in scan.todo
        /\ txn = NoTxn
        /\ r.seq <= MaxSeq
        /\ docs' = r.docs
        /\ docs_fts' = r.fts
        /\ seq' = r.seq
        /\ lastRowid' = [k \in Conns |-> r.lr[k]]
        /\ scan' = IF scan.todo = {p} THEN NoScan
                   ELSE [scan EXCEPT !.todo = scan.todo \ {p}, !.lr = r.lr["cli"]]
        /\ last' = Last("reindex", p, FALSE, f, r, FALSE, {})
        /\ cmd' = NoCmd
        /\ res' = NoRes
        /\ UNCHANGED <<txn, pure>>

\* The watcher of the running application and a rebuild started from the
\* command line, each on its own connection to the same database file.
NextRebuild ==
    \/ \E e \in FileEvents : \E f \in FileValues(e.src_path) : OnCreated(e, f)
    \/ \E e \in FileEvents : \E f \in FileValues(e.src_path) : OnModified(e, f)
    \/ \E e \in FileEvents : OnDeleted(e)
    \/ \E fs \in FileSystems : RebuildClear(fs)
    \/ \E p \in AllPaths : \E f \in FileValues(p) : RebuildIndex(p, f)

SpecRebuild == Init /\ [][NextRebuild]_vars

\* ---------------------------------------------------------- text functions
\* The two segmenters applied to one string.
Segment ==
    /\ pure.fn = "none"
    /\ pure' = [pure EXCEPT !.fn = "segment",
                            !.out = _segment_chinese_text(pure.arg),
                            !.out2 = _segment_chinese_query(pure.arg)]
    /\ UNCHANGED <<docs, docs_fts, seq, lastRowid, last, cmd, res, txn, scan>>

\* The string handed to the segmenters is any string of at most MaxLen
\* characters.
InitSegment ==
    /\ InitTables
    /\ pure \in {[NoPure EXCEPT !.arg = s] : s \in StringsUpTo(MaxLen)}

NextSegment == Segment

SpecSegment == InitSegment /\ [][NextSegment]_vars

\* ------------------------------------------------------------- the summary
MaxBody == 202

\* The text of a file's body: lead whitespace characters, n characters of
\* text (letters, ideographs and tabs) and trail whitespace characters.
BodyText(lead, n, trail) ==
    [i \in 1..(lead + n + trail) |->
        IF i <= lead \/ i > lead + n THEN " "
        ELSE IF i = lead + 1 \/ i = lead + n THEN "y"
        ELSE IF i % 7 = 0 THEN "U+673A"
        ELSE IF i % 5 = 0 THEN "\t"
        ELSE "P"]

\* A variant that cuts after 201 characters.
SummaryOf201(content) ==
    IF content # <<>> THEN SubSeq(content, 1, Min(201, Len(content))) ELSE <<>>

\* extract_text_from_md, summary = content[:200] if content else ""
Summary(content) ==
    IF content # <<>> THEN SubSeq(content, 1, Min(200, Len(content))) ELSE <<>>

\* extract_text_from_md on a file whose body (post.content) is raw: the
\* content and the summary it returns; parsed = FALSE when reading or
\* parsing raised and the fallback is returned.
ExtractBody(raw, parsed) ==
    IF parsed
    THEN [content |-> strip(raw), summary |-> Summary(strip(raw))]
    ELSE [content |-> <<>>, summary |-> <<>>]

\* extract_text_from_md applied to one file.
Extract ==
    /\ pure.fn = "none"
    /\ pure' = [pure EXCEPT !.fn = "extract",
                            !.out = ExtractBody(pure.arg, pure.ok).summary,
                            !.out2 = ExtractBody(pure.arg, pure.ok).content]
    /\ UNCHANGED <<docs, docs_fts, seq, lastRowid, last, cmd, res, txn, scan>>

\* The file has a body of at most MaxBody characters between at most one
\* whitespace character on each side, and it parses or not.
InitSummary ==
    /\ InitTables
    /\ pure \in {[NoPure EXCEPT !.arg = BodyText(lead, n, trail), !.ok = parsed] :
                   lead \in 0..1, n \in 0..MaxBody, trail \in 0..1,
                   parsed \in BOOLEAN}

NextSummary == Extract

SpecSummary == InitSummary /\ [][NextSummary]_vars

\* ---------------------------------------------------------- the highlighter
\* get_document marks the query's keywords in the document's HTML.  The HTML
\* is a sequence of characters in which each placeholder is one item.
MARK_PLACEHOLDER == "___MARK_START___"

MARK_END_PLACEHOLDER == "___MARK_END___"

\* len() of one item and of a string.
ItemLen(x) ==
    IF x = MARK_PLACEHOLDER THEN 16 ELSE IF x = MARK_END_PLACEHOLDER THEN 14 ELSE 1

RECURSIVE StrLen(_)
StrLen(s) == IF s = <<>> THEN 0 ELSE ItemLen(Head(s)) + StrLen(Tail(s))

\* str.isalnum() of a character.
isalnum(ch) ==
    \/ ord(ch) \in 48..57
    \/ ord(ch) \in 65..90
    \/ ord(ch) \in 97..122
    \/ ord(ch) >= 13312

\* \w of the re module at item x: letters, digits and "_", with which both
\* placeholders begin and end.
IsWord(x) == x \in {MARK_PLACEHOLDER, MARK_END_PLACEHOLDER} \/ isalnum(x)

IsWordAt(s, i) == i \in 1..Len(s) /\ IsWord(s[i])

\* ' '.join(query.split())
RECURSIVE join(_)
join(t) ==
    IF t = <<>> THEN <<>>
    ELSE IF Len(t) = 1 THEN t[1]
    ELSE t[1] \o <<" ">> \o join(Tail(t))

full_query(query) == join(split(query))

\* The loop that cuts the query at ' \t\n\r' and keeps the pieces of more
\* than one character.
RECURSIVE PhraseLoop(_, _, _)
PhraseLoop(s, current_phrase, phrases) ==
    LET kept == IF Len(current_phrase) > 1 THEN Append(phrases, current_phrase)
                ELSE phrases
    IN  IF s = <<>> THEN kept
        ELSE IF is_whitespace(Head(s))
             THEN PhraseLoop(Tail(s), <<>>, kept)
             ELSE PhraseLoop(Tail(s), Append(current_phrase, Head(s)), phrases)

Phrases(query) == PhraseLoop(query, <<>>, <<>>)

\* single_chars: the characters of the query with is_cjk; letters and digits
\* are passed over.
single_chars(query) == {query[i] : i \in {j \in 1..Len(query) : is_cjk(query[j])}}

\* The orders in which list(set(single_chars)) may hold the characters.
CharOrders(chars) ==
    {o \in [1..Cardinality(chars) -> chars] :
        \A i, j \in 1..Cardinality(chars) : o[i] = o[j] => i = j}

\* keywords_by_priority without the 'char' entries.
FullAndPhrases(query) ==
    (IF full_query(query) # <<>> THEN <<full_query(query)>> ELSE <<>>)
        \o Phrases(query)

has_chinese(keyword) == \E i \in 1..Len(keyword) : is_cjk(keyword[i])

\* TRUE iff the pattern of keyword kw matches s at item i: the characters
\* equal those of kw up to case (re.IGNORECASE) and, when bounded, \b holds
\* on both sides.
MatchAt(s, kw, i, bounded) ==
    LET e == i + Len(kw) - 1
    IN  /\ e <= Len(s)
        /\ \A k \in 1..Len(kw) : tolower(s[i + k - 1]) = tolower(kw[k])
        /\ bounded => /\ IsWordAt(s, i - 1) # IsWordAt(s, i)
                      /\ IsWordAt(s, e) # IsWordAt(s, e + 1)

\* str.rfind as the number of the last item equal to x, 0 when there is none.
rfind(s, x) ==
    IF \E i \in 1..Len(s) : s[i] = x
    THEN CHOOSE i \in 1..Len(s) : s[i] = x /\ \A j \in (i + 1)..Len(s) : s[j] # x
    ELSE 0

\* MARK_PLACEHOLDER in text_before[max(0, len(text_before)-50):]
InLast50(text_before) ==
    \E j \in 1..Len(text_before) :
        /\ text_before[j] = MARK_PLACEHOLDER
        /\ StrLen(SubSeq(text_before, j, Len(text_before))) <= 50

Count(s, x) == Cardinality({i \in 1..Len(s) : s[i] = x})

\* replace_with_placeholder and replace_char: TRUE iff the match that starts
\* after text_before is wrapped in placeholders.
Wraps(text_before) ==
    /\ ~(/\ InLast50(text_before)
         /\ rfind(text_before, MARK_PLACEHOLDER) > rfind(text_before, MARK_END_PLACEHOLDER))
    /\ ~(Count(text_before, "<") - Count(text_before, ">") > 0)

\* pattern.sub(callback, html_content): the matches are found from the left
\* and do not overlap, and the callback reads html_content as it was before
\* the pass.
RECURSIVE SubLoop(_, _, _, _, _)
SubLoop(old, kw, bounded, i, acc) ==
    IF i > Len(old) THEN acc
    ELSE IF MatchAt(old, kw, i, bounded)
         THEN LET m == SubSeq(old, i, i + Len(kw) - 1)
              IN  SubLoop(old, kw, bounded, i + Len(kw),
                          acc \o (IF Wraps(SubSeq(old, 1, i - 1))
                                  THEN <<MARK_PLACEHOLDER>> \o m \o <<MARK_END_PLACEHOLDER>>
                                  ELSE m))
         ELSE SubLoop(old, kw, bounded, i + 1, Append(acc, old[i]))

\* The passes for the 'full' and 'phrase' keywords kws, in their order.
RECURSIVE PhrasePasses(_, _)
PhrasePasses(html, kws) ==
    IF kws = <<>> THEN html
    ELSE PhrasePasses(SubLoop(html, Head(kws), ~has_chinese(Head(kws)), 1, <<>>),
                      Tail(kws))

\* The passes for the 'char' keywords.
RECURSIVE CharPasses(_, _)
CharPasses(html, chars) ==
    IF chars = <<>> THEN html
    ELSE CharPasses(SubLoop(html, <<Head(chars)>>, FALSE, 1, <<>>), Tail(chars))

has_highlights(html) == \E i \in 1..Len(html) : html[i] = MARK_PLACEHOLDER

\* A variant that runs the 'char' passes whatever the earlier passes marked.
AfterCharsAlways(html, chars) == CharPasses(html, chars)

\* The HTML after "if not has_highlights: ...".
AfterChars(html, chars) ==
    IF has_highlights(html) THEN html ELSE CharPasses(html, chars)

\* html_content.replace(placeholder, tag) for both placeholders.
ReplacePlaceholders(html) ==
    [i \in DOMAIN html |->
        IF html[i] = MARK_PLACEHOLDER THEN "<mark>"
        ELSE IF html[i] = MARK_END_PLACEHOLDER THEN "</mark>"
        ELSE html[i]]

\* get_document from "if q and q.strip()": marked is the HTML after the
\* 'full' and 'phrase' passes, html the HTML of the response.
Highlighted(html_content, q, chars) ==
    IF strip(q) = <<>>
    THEN [marked |-> html_content, html |-> html_content]
    ELSE LET marked == PhrasePasses(html_content, FullAndPhrases(strip(q)))
         IN  [marked |-> marked,
              html   |-> ReplacePlaceholders(AfterChars(marked, chars))]

MaxHtml == 4

MaxRun == 32

HtmlAlphabet == {"k", "y", " ", "<", ">", "U+673A", "U+4E00"}

\* The queries sent with short documents.
HlQueries ==
    {<<"k">>, <<"7">>, <<"k", "y">>, <<" ", "y", " ", "k", "y">>,
     <<"U+673A", "U+4E00">>, <<"k", "y", " ", "U+673A", "U+4E00">>}

\* "yy", n times "x", "kk" and "y" with spaces between: a query, and a
\* document that holds it.
RunText(n) == <<"y", "y", " ">> \o [i \in 1..n |-> "x"] \o <<" ", "k", "k", " ", "y">>

\* The documents and queries of the requests.
HlInputs ==
    {<<h, q>> : h \in UNION {[1..n -> HtmlAlphabet] : n \in 0..MaxHtml}, q \in HlQueries}
        \cup {<<RunText(n), RunText(n)>> : n \in 0..MaxRun}

\* GET /docs/{doc_id}?q=...
Highlight ==
    /\ pure.fn = "none"
    /\ \E chars \in CharOrders(single_chars(strip(pure.query))) :
          LET r == Highlighted(pure.arg, pure.query, chars)
          IN  pure' = [pure EXCEPT !.fn = "highlight", !.out = r.html,
                                   !.out2 = r.marked]
    /\ UNCHANGED <<docs, docs_fts, seq, lastRowid, last, cmd, res, txn, scan>>

InitHighlight ==
    /\ InitTables
    /\ pure \in {[NoPure EXCEPT !.arg = x[1], !.query = x[2]] : x \in HlInputs}

NextHighlight == Highlight

SpecHighlight == InitHighlight /\ [][NextHighlight]_vars

\* ------------------------------------------------------------ move events
\* A variant that handles a move as the deletion of the old path.
HandleMoveAsDelete(e) == HandleDelete(e)

\* The database after the observer dispatched a move event e to the handler:
\* MdEventHandler has no on_moved, and the one it inherits does nothing.
HandleMove(e) == CurrentDB

\* A file or directory was moved from e.src_path to dest.
OnMoved(e, dest) ==
    LET r == HandleMove(e)
    IN  /\ dest # e.src_path
        /\ SetDB(r)
        /\ last' = [Last("moved", e.src_path, e.is_directory, NoFile, r, FALSE, {})
                       EXCEPT !.dest = dest]
        /\ cmd' = NoCmd

\* The watcher with the events of the files a.md and b.md and with moves of
\* any file or directory.
NextWatch ==
    \/ \E e \in FileEvents : \E f \in FileValues(e.src_path) : OnCreated(e, f)
    \/ \E e \in FileEvents : \E f \in FileValues(e.src_path) : OnModified(e, f)
    \/ \E e \in FileEvents : OnDeleted(e)
    \/ \E e \in Events : \E dest \in AllPaths : OnMoved(e, dest)
    \/ \E c \in Conns : Reconnect(c)

SpecWatch == Init /\ [][NextWatch]_vars

\* ------------------------------------------------------------- type check
TypeOK ==
    /\ seq \in 0..MaxSeq
    /\ \A d \in docs : d.id \in 1..MaxSeq
    /\ \A c \in Conns : lastRowid[c] \in 0..MaxSeq
    /\ \A r \in docs_fts : r.rowid \in 1..MaxSeq

\* ================================================================= claims
Upserts == {"created", "modified"}

WatchOps == {"created", "modified", "deleted"}

FtsOfPath(rows, p) == {r \in rows : r.path = p}

FtsOfDoc(rows, id) == {r \in rows : r.doc_id = id}

\* TRUE iff term t occurs in rows and only in those of document id.
OnlyInDoc(rows, id, t) ==
    /\ \E r \in FtsOfDoc(rows, id) : t \in RowTokens(r)
    /\ \A r \in rows : t \in RowTokens(r) => r.doc_id = id

C2_DocIdOfPath ==
    [][(last'.op \in Upserts /\ last'.acted) =>
          last'.docId = (IF DocRows(last'.path) # {}
                         THEN OldId(last'.path) ELSE seq + 1)]_vars

\* C3: re-indexing a path leaves exactly one docs row and exactly one
\* docs_fts row for that path, and the docs row keeps its id.
C3_OneRowPerPath ==
    [][(last'.op \in Upserts /\ last'.acted /\ DocRows(last'.path) # {}) =>
          /\ Cardinality({d \in docs' : d.path = last'.path}) = 1
          /\ Cardinality(FtsOfPath(docs_fts', last'.path)) = 1
          /\ \A d \in docs' : d.path = last'.path => d.id = OldId(last'.path)]_vars

\* C4: after index_file re-indexed a path, the docs_fts rows of that document
\* hold the new content, and a term that occurred only in the old version of
\* the document is found nowhere.
C4_NoStalePostings ==
    [][(last'.op \in Upserts /\ last'.acted /\ DocRows(last'.path) # {}) =>
          LET id  == OldId(last'.path)
              new == extract_text_from_md(last'.path, last'.file).content
          IN  /\ FtsOfDoc(docs_fts', id) # {}
              /\ \A r \in FtsOfDoc(docs_fts', id) : r.content = new
              /\ \A t \in Terms :
                    (OnlyInDoc(docs_fts, id, t) /\ t \notin new) =>
                        SearchTotal(docs_fts', {t}) = 0]_vars

\* C5: after remove_file_from_index for an indexed path, its docs row and the
\* docs_fts rows holding its content are gone: a term found only in rows of
\* that path is found nowhere afterwards.
C5_RemovedIsGone ==
    [][(last'.op = "deleted" /\ last'.acted) =>
          /\ \A d \in docs' : d.path # last'.path
          /\ FtsOfPath(docs_fts', last'.path) = {}
          /\ \A t \in Terms \cup {last'.path.stem} :
                ((\E r \in FtsOfPath(docs_fts, last'.path) : t \in RowTokens(r))
                  /\ (\A r \in docs_fts : t \in RowTokens(r) => r.path = last'.path))
                => SearchTotal(docs_fts', {t}) = 0]_vars

\* C6: a create, a modify and a delete event for one path, applied in
\* sequence to a state that does not know the path, leave docs and docs_fts
\* as they were.
C6_CreateModifyDelete ==
    cmd.stage = 3 => (docs = cmd.docs0 /\ FtsData(docs_fts) = cmd.fts0)

\* The .md files under md_root among the scanned ones: a link whose target
\* lies outside md_root is not a file under md_root.
UnderRoot(scanned) == {p \in scanned : p.inside}

\* C7: after full_reindex completed, the paths in docs, and those in
\* docs_fts, are exactly the .md files under md_root at scan time, each
\* docs row paired with one docs_fts row.
C7_RebuildExact ==
    (last.op = "reindex" /\ ~last.raised) =>
        /\ {d.path : d \in docs} = UnderRoot(last.scanned)
        /\ {r.path : r \in docs_fts} = UnderRoot(last.scanned)
        /\ Cardinality(docs) = Cardinality(UnderRoot(last.scanned))
        /\ Paired(docs, docs_fts)

\* A rebuild that found files, the link among them, ran on tables that were
\* not paired.
C7_Witness ==
    /\ last.op = "reindex"
    /\ last.unpaired
    /\ ~last.raised
    /\ docs # {}
    /\ PathE \in last.scanned

\* C8: a delete event for a path without a docs row raises nothing and
\* leaves docs and docs_fts unchanged.
C8_DeleteUnknownNoOp ==
    [][(last'.op = "deleted" /\ ~last'.dir /\ _is_markdown_file(last'.path)
            /\ DocRows(last'.path) = {}) =>
          (UNCHANGED <<docs, docs_fts>> /\ ~last'.raised)]_vars

\* A delete event for an unindexed .md path was handled while the tables
\* held rows.
C8_Witness ==
    /\ last.op = "deleted"
    /\ ~last.dir
    /\ _is_markdown_file(last.path)
    /\ ~last.acted
    /\ docs # {}
    /\ docs_fts # {}

\* C9: an event whose path does not end in .md, or whose is_directory flag
\* is set, allocates no id and leaves docs and docs_fts unchanged.
C9_IgnoredEvents ==
    [][(last'.op \in WatchOps /\ (last'.dir \/ ~_is_markdown_file(last'.path))) =>
          UNCHANGED <<docs, docs_fts, seq>>]_vars

\* A directory event for a path ending in .md was handled while the tables
\* held rows.
C9_Witness ==
    /\ last.op \in Upserts
    /\ last.dir
    /\ _is_markdown_file(last.path)
    /\ docs # {}

C11_ScanGoesOn ==
    (last.op = "reindex" /\ last.failed # {}) =>
        /\ ~last.raised
        /\ \A p \in UnderRoot(last.scanned) \ last.failed :
              /\ \E d \in docs : d.path = p
              /\ \E r \in docs_fts : r.path = p

\* A rebuild lost one file of its scan and indexed another.
C11_Witness ==
    /\ last.op = "reindex"
    /\ last.failed # {}
    /\ UnderRoot(last.scanned) \ last.failed # {}
    /\ docs # {}

\* ---------------------------------------------------------------- search
\* The terms document d is indexed under: title, body and path.
DocTokens(d) == d.summary \cup {d.title} \cup {d.path.stem, d.path.ext}

\* The documents that contain every term of query q.
DocsWith(q) == {d \in docs : QueryTerms(q) \subseteq DocTokens(d)}

\* A request that search_documents answered.
Answered == res.called /\ res.status = 200

\* Every docs row has one docs_fts row, with its id, path, title and body,
\* and docs_fts has no other rows.
Whole(d, f) ==
    /\ Paired(d, f)
    /\ \A x \in d : \A r \in f :
          r.doc_id = x.id =>
              r.path = x.path /\ r.title = x.title /\ r.content = x.summary

\* C12: a bare-term query whose terms are all in exactly one document has
\* total 1 and one result, with that document's id, title and path.
C12_UniqueDocFound ==
    (Answered /\ ~Fts5HasOr(res.q) /\ res.offset = 0
        /\ Cardinality(DocsWith(res.q)) = 1) =>
        /\ res.total = 1
        /\ Len(res.results) = 1
        /\ \A d \in DocsWith(res.q) :
              /\ res.results[1].id = d.id
              /\ res.results[1].title = d.title
              /\ res.results[1].path = d.path

\* Every word of query q, an operator keyword counted as the word it is.
AllWords(q) == {Fts5Words(q)[i] : i \in 1..Len(Fts5Words(q))}

\* The documents that contain every word of query q.
DocsWithAll(q) == {d \in docs : AllWords(q) \subseteq DocTokens(d)}

\* C13: on tables that are whole, every returned document contains every
\* word of the query, and no more documents are counted than contain them.
C13_Conjunctive ==
    (Answered /\ Whole(docs, docs_fts)) =>
        /\ \A i \in 1..Len(res.results) :
              \E d \in DocsWithAll(res.q) : d.id = res.results[i].id
        /\ res.total <= Cardinality(DocsWithAll(res.q))

\* C14: a bare-term query that K documents match has total K, and its page
\* has min(limit, K - offset) results when offset < K and none otherwise.
C14_Pagination ==
    (Answered /\ ~Fts5HasOr(res.q)) =>
        LET K == Cardinality(DocsWith(res.q))
        IN  /\ res.total = K
            /\ Len(res.results) =
                   IF res.offset < K THEN Min(res.limit, K - res.offset) ELSE 0

\* The rows the search query of the answered request matches.
Matched == JoinQuery(docs, docs_fts, _segment_chinese_query(res.q))

\* C15: the results are in ascending rank, and the i-th result of the page
\* is at place offset + i of the matching rows ordered by rank.
C15_RankOrder ==
    Answered =>
        /\ \A i \in 1..(Len(res.results) - 1) :
              res.results[i].rank <= res.results[i + 1].rank
        /\ \A i \in 1..Len(res.results) :
              /\ Cardinality({x \in Matched : x.rank < res.results[i].rank})
                     <= res.offset + i - 1
              /\ Cardinality({x \in Matched : x.rank <= res.results[i].rank})
                     >= res.offset + i
              /\ \E x \in Matched : x = res.results[i]

\* A page of two results of different rank, and a page that starts after a
\* more relevant row.
C15_Witness ==
    /\ Answered
    /\ \/ /\ Len(res.results) = 2
          /\ res.results[1].rank < res.results[2].rank
       \/ /\ Len(res.results) = 1
          /\ res.offset = 1
          /\ \E x \in Matched : x.rank < res.results[1].rank

\* C16: on tables that are whole, results of equal rank are in ascending
\* document id order.
C16_TiesById ==
    (Answered /\ Whole(docs, docs_fts)) =>
        \A i \in 1..(Len(res.results) - 1) :
            res.results[i].rank = res.results[i + 1].rank =>
                res.results[i].id < res.results[i + 1].id

\* C17: on tables that are whole, every result's snippet has a marked term.
C17_SnippetMarked ==
    (Answered /\ Whole(docs, docs_fts)) =>
        \A i \in 1..Len(res.results) : res.results[i].snippet.marked # {}

\* A /search request was made.
Requested == res.limit # 0

\* C18: a request whose q is empty or blank gets status 422 without a call
\* of search_documents.
C18_BlankRejected ==
    (Requested /\ strip(res.q) = <<>>) => res.status = 422 /\ ~res.called

\* A blank request of one whitespace run was answered over a non-empty index.
C18_Witness ==
    /\ Requested
    /\ res.q = <<" ">>
    /\ res.status = 422
    /\ docs_fts # {}

\* C20: a request answered while the watcher commits, the tables being
\* whole after the commit, has total and page of one state: the page has
\* min(limit, max(0, total - offset)) results.
C20_OneState ==
    (Answered /\ Whole(docs, docs_fts)) =>
        Len(res.results) = Min(res.limit, Max(0, res.total - res.offset))

\* C19: whenever a request reads the tables from its own connection, also
\* between the statements of index_file or remove_file_from_index, every
\* docs row it reads has its own docs_fts row and no other.
C19_ReaderSeesWhole ==
    last.op = "search" => Whole(docs, docs_fts)

\* C21: a full rebuild and the watcher's incremental updates are serialized:
\* between the rebuild's clearing of the tables and its indexing of the last
\* scanned file, no index_file or remove_file_from_index of the watcher
\* changes the tables.
C21_RebuildSerialized ==
    [][scan.pc = "scanning" /\ last'.op \in WatchOps =>
           docs' = docs /\ docs_fts' = docs_fts]_vars

\* C22: for every string, _segment_chinese_text and _segment_chinese_query
\* give the same sequence of whitespace-delimited tokens.
C22_SameTokens ==
    pure.fn = "segment" => split(pure.out) = split(pure.out2)

\* The segmenters were given a string with a letter right after an ideograph
\* and returned different strings.
C22_Witness ==
    /\ pure.fn = "segment"
    /\ pure.out # pure.out2
    /\ \E i \in 1..(Len(pure.arg) - 1) :
           is_cjk(pure.arg[i]) /\ pure.arg[i + 1] \in {"P", "y"}

\* The ideographs of the alphabet, and those of them in U+4E00..U+9FFF.
Ideographs == {"U+673A", "U+4E00", "U+3400"}

CJKBlock == {ch \in Alphabet : ord(ch) \in 19968..40959}

\* The terms of string s when each character of ideo is a term of its own and
\* every maximal run of other characters that are not whitespace is one
\* term, in the order of s, letters folded to lower case.
RECURSIVE ScriptTermsLoop(_, _, _, _)
ScriptTermsLoop(s, ideo, cur, acc) ==
    LET flushed == IF cur = <<>> THEN acc ELSE Append(acc, cur)
    IN  IF s = <<>> THEN flushed
        ELSE IF Head(s) \in ideo
             THEN ScriptTermsLoop(Tail(s), ideo, <<>>, Append(flushed, <<Head(s)>>))
             ELSE IF isspace(Head(s))
                  THEN ScriptTermsLoop(Tail(s), ideo, <<>>, flushed)
                  ELSE ScriptTermsLoop(Tail(s), ideo,
                                       Append(cur, tolower(Head(s))), acc)

ScriptTerms(s, ideo) == ScriptTermsLoop(s, ideo, <<>>, <<>>)

\* C23 (as stated): segmentation makes every CJK ideograph a term of its own,
\* puts a boundary at every transition between ideographs and other
\* characters, and keeps each maximal run of other non-whitespace characters
\* as one term in its place, for the text indexed and for the query.
C23_EveryIdeograph ==
    pure.fn = "segment" =>
        /\ unicode61(pure.out) = ScriptTerms(pure.arg, Ideographs)
        /\ unicode61(pure.out2) = ScriptTerms(pure.arg, Ideographs)

\* C23 (amended): the same with "CJK ideograph" meaning a character of
\* U+4E00..U+9FFF; any other ideograph counts as an ordinary character and
\* stays inside its run.
C23_BlockIdeographs ==
    pure.fn = "segment" =>
        /\ unicode61(pure.out) = ScriptTerms(pure.arg, CJKBlock)
        /\ unicode61(pure.out2) = ScriptTerms(pure.arg, CJKBlock)

\* "Py" followed by two ideographs without whitespace gave the terms py and
\* the two ideographs, in that order.
C23_Witness ==
    /\ pure.fn = "segment"
    /\ pure.arg = <<"P", "y", "U+673A", "U+4E00">>
    /\ unicode61(pure.out) = <<<<"p", "y">>, <<"U+673A">>, <<"U+4E00">>>>
    /\ unicode61(pure.out2) = <<<<"p", "y">>, <<"U+673A">>, <<"U+4E00">>>>

\* TRUE iff sequence a is a prefix of sequence b.
IsPrefix(a, b) == Len(a) <= Len(b) /\ a = SubSeq(b, 1, Len(a))

\* C24: the summary of an indexed document has at most 200 characters and is
\* a prefix of the stripped body; when the body has at least 200 characters
\* the summary is exactly its first 200.
C24_SummaryLength ==
    pure.fn = "extract" =>
        LET body == pure.out2
        IN  /\ pure.ok => body = strip(pure.arg)
            /\ Len(pure.out) <= 200
            /\ IsPrefix(pure.out, body)
            /\ Len(body) >= 200 => pure.out = SubSeq(body, 1, 200)

\* A body of more than 200 characters after a leading space was cut to 200.
C24_Witness ==
    /\ pure.fn = "extract"
    /\ pure.ok
    /\ Len(strip(pure.arg)) > 200
    /\ pure.arg[1] = " "
    /\ Len(pure.out) = 200

\* The number of <mark> not yet closed after the first i items of h.
Depth(h, i) == Count(SubSeq(h, 1, i), "<mark>") - Count(SubSeq(h, 1, i), "</mark>")

\* C25: the highlighter marks no text twice: in the response the <mark>
\* spans are never nested or overlapping, whatever the length of a span, and
\* <mark> and </mark> occur equally often.
C25_NoNesting ==
    pure.fn = "highlight" =>
        /\ \A i \in 1..Len(pure.out) : Depth(pure.out, i) \in {0, 1}
        /\ Depth(pure.out, Len(pure.out)) = 0

\* TRUE iff item i of h lies inside an HTML tag: after a "<" and before the
\* ">" that closes it.
InTag(h, i) ==
    \E j \in 1..(i - 1) :
        /\ h[j] = "<"
        /\ \A k \in (j + 1)..(i - 1) : h[k] # ">"
        /\ \E c \in (i + 1)..Len(h) : h[c] = ">"

\* C26: a keyword occurrence inside an HTML tag is never wrapped in a mark,
\* also when the document has ">" characters outside of tags.
C26_NotInTag ==
    pure.fn = "highlight" =>
        \A i \in 1..Len(pure.out) : pure.out[i] = "<mark>" => ~InTag(pure.out, i)

\* The texts of the marked spans of h.
Spans(h) ==
    {SubSeq(h, i + 1, (CHOOSE e \in (i + 1)..Len(h) :
                           /\ h[e] = "</mark>"
                           /\ \A k \in (i + 1)..(e - 1) : h[k] # "</mark>") - 1) :
        i \in {j \in 1..Len(h) : h[j] = "<mark>"}}

LatinOrDigit(ch) == ord(ch) \in (48..57) \cup (65..90) \cup (97..122)

\* If the 'full' and 'phrase' passes marked something, the response has no
\* further mark; otherwise every mark is on one CJK character of the query.
CharsOnlyIfNothing ==
    IF has_highlights(pure.out2)
    THEN Count(pure.out, "<mark>") = Count(pure.out2, MARK_PLACEHOLDER)
    ELSE \A s \in Spans(pure.out) :
             /\ Len(s) = 1
             /\ ord(s[1]) \in 19968..40959
             /\ \E i \in 1..Len(pure.query) : pure.query[i] = s[1]

\* C27 (as stated): single CJK characters of the query are marked only if the
\* 'full' and 'phrase' passes marked nothing, and a single Latin letter or
\* digit is never a keyword: no mark is on one.
C27_NoLatinKeyword ==
    pure.fn = "highlight" =>
        /\ CharsOnlyIfNothing
        /\ \A s \in Spans(pure.out) : ~(Len(s) = 1 /\ LatinOrDigit(s[1]))

\* C27 (amended): single CJK characters of the query are marked only if the
\* 'full' and 'phrase' passes marked nothing, and a single Latin letter or
\* digit is a keyword only as the whole query.
C27_CharsLast ==
    pure.fn = "highlight" =>
        /\ CharsOnlyIfNothing
        /\ \A s \in Spans(pure.out) :
               Len(s) = 1 /\ LatinOrDigit(s[1]) =>
                   strip(pure.query) = <<tolower(s[1])>>

\* A query of two ideographs found no phrase in the document and one of its
\* characters was marked.
C27_Witness ==
    /\ pure.fn = "highlight"
    /\ pure.query = <<"U+673A", "U+4E00">>
    /\ ~has_highlights(pure.out2)
    /\ <<"U+4E00">> \in Spans(pure.out)

\* C28: index_file for path P changes only P's record and postings: the docs
\* row and the docs_fts rows of every other path are the same before and
\* after, whatever was done earlier on the connection.
C28_OthersUntouched ==
    [][last'.op \in Upserts /\ last'.acted =>
           \A q \in AllPaths \ {last'.path} :
               /\ {d \in docs' : d.path = q} = {d \in docs : d.path = q}
               /\ FtsOfPath(docs_fts', q) = FtsOfPath(docs_fts, q)]_vars

\* C29: full_reindex tests for md_root only after it deleted the rows of
\* both tables and committed: when md_root does not exist it raises
\* ValueError and leaves both tables empty.
C29_MissingRootClears ==
    last.op = "reindex" /\ last.raised => docs = {} /\ docs_fts = {}

\* A rebuild raised on tables that held rows.
C29_Witness ==
    /\ last.op = "reindex"
    /\ last.raised
    /\ last.unpaired
    /\ docs = {}
    /\ docs_fts = {}

\* C30: the watcher has no handler for a move: a move or rename event
\* changes nothing, so the old path's docs row and postings remain and the
\* new path gets no record.
C30_MoveIgnored ==
    [][last'.op = "moved" => docs' = docs /\ docs_fts' = docs_fts]_vars

\* An indexed .md file was renamed to a path the index does not know, and
\* the index still holds the old path and not the new one.
C30_Witness ==
    /\ last.op = "moved"
    /\ ~last.dir
    /\ _is_markdown_file(last.dest)
    /\ DocRows(last.path) # {}
    /\ FtsOfPath(docs_fts, last.path) # {}
    /\ Unknown(last.dest)

====
